---- MODULE Spec2Model ----
(***************************************************************************)
(* Chaum-Pedersen authentication: the sigma-protocol engine (src/src/lib.rs)*)
(* and the gRPC server state machine (src/src/server.rs).                   *)
(*                                                                          *)
(* The specifications of the module:                                        *)
(*   Spec     the server: concurrent handlers over the two Mutex-guarded    *)
(*            HashMaps, one step per lock acquisition;                      *)
(*   SpecEnrolled  the same server, started with both users registered;     *)
(*   SpecZKP  the engine: one prover/verifier run over a toy group, the     *)
(*            shape of tests::test_toy_example;                             *)
(*   SpecWrong, SpecUnified, SpecGiven, SpecExponentiation  the engine      *)
(*            functions as the other tests of src/src/lib.rs call them.     *)
(* The 1024-bit group of ZKP::get_constants cannot be enumerated; the       *)
(* server model runs over a small prime-order group instead.                *)
(***************************************************************************)
EXTENDS Integers, Sequences, FiniteSets, TLC

VARIABLES
    user_info,              \* AuthImpl.user_info: HashMap<String, UserInfo>
    auth_id_to_user,        \* AuthImpl.auth_id_to_user: HashMap<String, String>
    user_info_lock,         \* holder of the Mutex around user_info
    auth_id_to_user_lock,   \* holder of the Mutex around auth_id_to_user
    pc,                     \* per task: the handler it is inside of
    local,                  \* per task: the handler's local variables
    resp,                   \* the response delivered last
    issued,                 \* history: per handle, what its challenge call set
    verified,               \* history: handles that returned a token
    rejected,               \* history: handles that were denied
    registered,             \* history: per user, the credential registered last
    pending,                \* history: per user, the challenge call not yet
                            \* followed by a register or challenge for the user
    stale,                  \* history: <<user, handle>> for the handles issued
                            \* before the user's latest register, no challenge
                            \* for the user since
    calls,                  \* history: number of requests received since Init
    test                    \* the engine run (SpecZKP)

vars == <<user_info, auth_id_to_user, user_info_lock, auth_id_to_user_lock,
          pc, local, resp, issued, verified, rejected, registered, pending,
          stale, calls, test>>

serverVars == <<user_info, auth_id_to_user, user_info_lock,
                auth_id_to_user_lock, pc, local, resp, issued, verified,
                rejected, registered, pending, stale, calls>>

----------------------------------------------------------------------------
(* Bounds *)

\* engine inputs x, k, c, x_fake range over 0..MaxIn (beyond q = 11)
MaxIn == 12
\* registered passwords x range over 1..MaxPassword
MaxPassword == 2
\* commitment exponents k range over 1..MaxCommit
MaxCommit == 1
\* number of requests the server receives in one run
MaxCalls == 4
\* public values r1, r2, y1, y2, s handed to verify directly: 0..MaxGiven
MaxGiven == 1
\* exponentiate alone: base in 0..MaxBase, exponent in 0..MaxExponent,
\* modulus in 2..MaxModulus
MaxBase == 6
MaxExponent == 7
MaxModulus == 23

----------------------------------------------------------------------------
(* Sigma-protocol engine, src/src/lib.rs *)

\* a power of zero taken as zero whatever the exponent
RECURSIVE modpow_zero_base(_, _, _)
modpow_zero_base(n, exponent, modulus) ==
    IF modulus = 1 THEN 0
    ELSE IF n % modulus = 0 THEN 0
    ELSE IF exponent = 0 THEN 1
    ELSE ((n % modulus) * modpow_zero_base(n, exponent - 1, modulus))
             % modulus

\* BigUint::modpow: 0 for modulus 1, and 0^0 = 1 otherwise
RECURSIVE modpow(_, _, _)
modpow(n, exponent, modulus) ==
    IF modulus = 1 THEN 0
    ELSE IF exponent = 0 THEN 1
    ELSE ((n % modulus) * modpow(n, exponent - 1, modulus)) % modulus

\* base and exponent taken for each other
exponentiate_swapped(n, exponent, modulus) == modpow(exponent, n, modulus)

exponentiate(n, exponent, modulus) == modpow(n, exponent, modulus)

\* else branch without the subtraction from q
solve_no_wrap(zkp, k, c, x) ==
    IF k >= c * x
    THEN modpow(k - c * x, 1, zkp.q)
    ELSE modpow(c * x - k, 1, zkp.q)

\* the else branch subtracting c * x - k from q once, without the reduction
solve_one_wrap(zkp, k, c, x) ==
    IF k >= c * x
    THEN modpow(k - c * x, 1, zkp.q)
    ELSE IF c * x - k <= zkp.q THEN zkp.q - (c * x - k) ELSE 0

solve(zkp, k, c, x) ==
    IF k >= c * x
    THEN modpow(k - c * x, 1, zkp.q)
    ELSE zkp.q - modpow(c * x - k, 1, zkp.q)

\* the else branch reduced into [0, q)
solve_unified_reduced(zkp, k, c, x) ==
    LET cx == c * x
    IN  IF k >= cx
        THEN modpow(k - cx, 1, zkp.q)
        ELSE modpow(zkp.q - modpow(cx - k, 1, zkp.q), 1, zkp.q)

solve_unified(zkp, k, c, x) ==
    LET cx == c * x
    IN  IF k >= cx
        THEN modpow(k - cx, 1, zkp.q)
        ELSE zkp.q - modpow(cx - k, 1, zkp.q)

\* the credential factor y^c left out of both conditions
verify_commitment_only(zkp, r1, r2, y1, y2, c, s) ==
    LET cond1 == r1 = modpow(modpow(zkp.g, s, zkp.p), 1, zkp.p)
        cond2 == r2 = modpow(modpow(zkp.h, s, zkp.p), 1, zkp.p)
    IN  cond1 /\ cond2

\* the second condition left unchecked
verify_first_condition_only(zkp, r1, r2, y1, y2, c, s) ==
    r1 = modpow(modpow(zkp.g, s, zkp.p) * modpow(y1, c, zkp.p), 1, zkp.p)

verify(zkp, r1, r2, y1, y2, c, s) ==
    LET cond1 == r1 = modpow(modpow(zkp.g, s, zkp.p) * modpow(y1, c, zkp.p),
                             1, zkp.p)
        cond2 == r2 = modpow(modpow(zkp.h, s, zkp.p) * modpow(y2, c, zkp.p),
                             1, zkp.p)
    IN  cond1 /\ cond2

\* the group of tests::test_toy_example
ToyGroup == [p |-> 23, q |-> 11, g |-> 4, h |-> 9]
\* the group of tests::test_toy_example2
ToyGroup2 == [p |-> 47, q |-> 23, g |-> 16, h |-> 17]

\* ZKP::get_constants (g, h, p, q), with the 1024-bit group replaced by the
\* smallest group of the same shape: p prime, q prime dividing p - 1, g and
\* h = g^2 of order q
get_constants == [p |-> 7, q |-> 3, g |-> 2, h |-> 4]

\* BigUint::to_bytes_be: big-endian, zero is the single byte 0
RECURSIVE to_bytes_be(_)
to_bytes_be(n) ==
    IF n < 256 THEN <<n>> ELSE to_bytes_be(n \div 256) \o <<n % 256>>

\* BigUint::from_bytes_be: the empty string is zero
RECURSIVE from_bytes_be(_)
from_bytes_be(b) ==
    IF Len(b) = 0 THEN 0
    ELSE from_bytes_be(SubSeq(b, 1, Len(b) - 1)) * 256 + b[Len(b)]

----------------------------------------------------------------------------
(* The engine run: tests::test_toy_example, with drawn inputs *)

Groups == {ToyGroup, ToyGroup2}

NoTest == [phase |-> "none", zkp |-> ToyGroup, x |-> 0, k |-> 0, c |-> 0,
           y1 |-> 0, y2 |-> 0, r1 |-> 0, r2 |-> 0, s |-> 0, result |-> FALSE,
           x_fake |-> 0, s_fake |-> 0, result_fake |-> FALSE,
           wrong |-> "none", value_wrong |-> 0, result_wrong |-> FALSE,
           s_unified |-> 0,
           base |-> 0, exponent |-> 0, modulus |-> 2, output |-> 0]

\* y1, y2, r1, r2 by exponentiate (lib.rs 378-384)
ComputeCommitments ==
    /\ test.phase = "inputs"
    /\ test' = [test EXCEPT
                  !.phase = "committed",
                  !.y1 = exponentiate(test.zkp.g, test.x, test.zkp.p),
                  !.y2 = exponentiate(test.zkp.h, test.x, test.zkp.p),
                  !.r1 = exponentiate(test.zkp.g, test.k, test.zkp.p),
                  !.r2 = exponentiate(test.zkp.h, test.k, test.zkp.p)]
    /\ UNCHANGED serverVars

\* s = solve(k, c, x) (lib.rs 388)
ComputeResponse ==
    /\ test.phase = "committed"
    /\ test' = [test EXCEPT
                  !.phase = "solved",
                  !.s = solve(test.zkp, test.k, test.c, test.x)]
    /\ UNCHANGED serverVars

\* result = verify(r1, r2, y1, y2, c, s) (lib.rs 391)
CheckProof ==
    /\ test.phase = "solved"
    /\ test' = [test EXCEPT
                  !.phase = "verified",
                  !.result = verify(test.zkp, test.r1, test.r2, test.y1,
                                    test.y2, test.c, test.s)]
    /\ UNCHANGED serverVars

\* the fake response solved with the true secret
ComputeFakeResponseWithSecret(x_fake) ==
    /\ test.phase = "verified"
    /\ test' = [test EXCEPT
                  !.phase = "fake_solved",
                  !.x_fake = x_fake,
                  !.s_fake = solve(test.zkp, test.k, test.c, test.x)]
    /\ UNCHANGED serverVars

\* s_fake = solve(k, c, x_fake) (lib.rs 395-396)
ComputeFakeResponse(x_fake) ==
    /\ test.phase = "verified"
    /\ test' = [test EXCEPT
                  !.phase = "fake_solved",
                  !.x_fake = x_fake,
                  !.s_fake = solve(test.zkp, test.k, test.c, x_fake)]
    /\ UNCHANGED serverVars

\* result_fake = verify(r1, r2, y1, y2, c, s_fake) (lib.rs 397)
CheckFakeProof ==
    /\ test.phase = "fake_solved"
    /\ test' = [test EXCEPT
                  !.phase = "fake_verified",
                  !.result_fake = verify(test.zkp, test.r1, test.r2, test.y1,
                                         test.y2, test.c, test.s_fake)]
    /\ UNCHANGED serverVars

\* s_original = solve(k, c, x) (lib.rs 183, 194)
SolveOriginal ==
    /\ test.phase = "inputs"
    /\ test' = [test EXCEPT
                  !.phase = "original_solved",
                  !.s = solve(test.zkp, test.k, test.c, test.x)]
    /\ UNCHANGED serverVars

\* s_unified = solve_unified(k, c, x) (lib.rs 184, 195)
SolveUnified ==
    /\ test.phase = "original_solved"
    /\ test' = [test EXCEPT
                  !.phase = "unified_solved",
                  !.s_unified = solve_unified(test.zkp, test.k, test.c,
                                              test.x)]
    /\ UNCHANGED serverVars

\* output = exponentiate(base, exponent, modulus) (lib.rs 16-18)
Exponentiate ==
    /\ test.phase = "operands"
    /\ test' = [test EXCEPT
                  !.phase = "exponentiated",
                  !.output = exponentiate(test.base, test.exponent,
                                          test.modulus)]
    /\ UNCHANGED serverVars

\* result = verify(r1, r2, y1, y2, c, s) on values set by hand
\* (lib.rs 289, 354)
VerifyGiven ==
    /\ test.phase = "given"
    /\ test' = [test EXCEPT
                  !.phase = "given_verified",
                  !.result = verify(test.zkp, test.r1, test.r2, test.y1,
                                    test.y2, test.c, test.s)]
    /\ UNCHANGED serverVars

\* the values of a transcript a test replaces, and the range of each
Replaceable == {"r1", "r2", "c", "y1", "y2"}
WrongValues(zkp, which) ==
    IF which = "c" THEN 0..(zkp.q - 1) ELSE 0..(zkp.p - 1)

\* verify with one value of the transcript replaced, the failed cases 2-6
\* of tests::test_verify_sample_data (lib.rs 528-576)
verify_wrong_value(zkp, r1, r2, y1, y2, c, s, which, wrong) ==
    verify(zkp,
           IF which = "r1" THEN wrong ELSE r1,
           IF which = "r2" THEN wrong ELSE r2,
           IF which = "y1" THEN wrong ELSE y1,
           IF which = "y2" THEN wrong ELSE y2,
           IF which = "c" THEN wrong ELSE c,
           s)

\* result of verify with the value named which replaced by wrong
\* (lib.rs 529-576)
CheckWrongValue(which, wrong) ==
    /\ test.phase = "verified"
    /\ test' = [test EXCEPT
                  !.phase = "wrong_verified",
                  !.wrong = which,
                  !.value_wrong = wrong,
                  !.result_wrong =
                      verify_wrong_value(test.zkp, test.r1, test.r2, test.y1,
                                         test.y2, test.c, test.s, which,
                                         wrong)]
    /\ UNCHANGED serverVars

----------------------------------------------------------------------------
(* Server state, src/src/server.rs *)

\* Handler tasks. A handler is between two steps only while it holds one of
\* the two locks, so at most two handlers are ever in progress at once and a
\* third task could only run calls that one of these two can run.
Tasks == {1, 2}
NoTask == 0

Users == {"alice", "bob"}

\* outcomes of ZKP::generate_random_string (lib.rs 67-73)
RandomStrings == {"a1", "a2"}
generate_random_string(size) == RandomStrings

\* outcomes of ZKP::generate_random_number_below (lib.rs 61-65)
generate_random_number_below(limit) == 0..(limit - 1)

\* request payloads: honest credentials and commitments, any response
Passwords == 1..MaxPassword
Commits == 1..MaxCommit
CredentialBytes ==
    {<<to_bytes_be(exponentiate(get_constants.g, x, get_constants.p)),
       to_bytes_be(exponentiate(get_constants.h, x, get_constants.p))>> :
        x \in Passwords}
CommitmentBytes ==
    {<<to_bytes_be(exponentiate(get_constants.g, k, get_constants.p)),
       to_bytes_be(exponentiate(get_constants.h, k, get_constants.p))>> :
        k \in Commits}
ResponseBytes == {to_bytes_be(s) : s \in 0..get_constants.q}

\* UserInfo::default() (server.rs 15-30)
UserInfoDefault ==
    [user_name |-> "", y1 |-> 0, y2 |-> 0, r1 |-> 0, r2 |-> 0, c |-> 0,
     s |-> 0, session_id |-> ""]

\* the UserInfo built by register (server.rs 41-46)
new_user_info(user, y1, y2) ==
    [UserInfoDefault EXCEPT !.user_name = user,
                            !.y1 = from_bytes_be(y1),
                            !.y2 = from_bytes_be(y2)]

\* HashMap::insert that keeps an existing entry
insert_if_absent(map, key, value) ==
    [x \in (DOMAIN map) \cup {key} |->
        IF x \in DOMAIN map THEN map[x] ELSE value]

\* HashMap::insert: adds the key or replaces its value
insert(map, key, value) ==
    [x \in (DOMAIN map) \cup {key} |-> IF x = key THEN value ELSE map[x]]

EmptyMap == [x \in {} |-> 0]

\* history bookkeeping: the entry of key set to value
Record(history, key, value) == (key :> value) @@ history

\* history bookkeeping: the entry of key dropped
Forget(history, key) == [x \in (DOMAIN history) \ {key} |-> history[x]]

\* history bookkeeping: <<user, handle>> for the handles issued for user
IssuedFor(user) ==
    {<<user, h>> : h \in {x \in DOMAIN issued : issued[x].user_name = user}}

\* history bookkeeping: how many times user has been registered
Times(user) == IF user \in DOMAIN registered THEN registered[user].times ELSE 0

\* history bookkeeping: this registration replaces a different credential
Replaces(user, y1, y2) ==
    /\ user \in DOMAIN registered
    /\ \/ registered[user].replaced
       \/ <<registered[user].y1, registered[user].y2>> # <<y1, y2>>

\* the commitment and challenge written into every user's record
set_challenge_all(map, user_name, r1, r2, c) ==
    [u \in DOMAIN map |-> [map[u] EXCEPT !.r1 = r1, !.r2 = r2, !.c = c]]

\* get_mut(&user_name) and the writes of r1, r2, c (server.rs 63-71)
set_challenge(map, user_name, r1, r2, c) ==
    [map EXCEPT ![user_name] = [@ EXCEPT !.r1 = r1, !.r2 = r2, !.c = c]]

NoLocal == [user_name |-> "", auth_id |-> "", r1 |-> 0, r2 |-> 0, c |-> 0,
            s |-> <<>>]

NoResp == [op |-> "none", key |-> "",
           code |-> "none", auth_id |-> "", c |-> <<>>, session_id |-> "",
           msg |-> ""]

\* a tonic Response or Status handed back to the caller of task t
Reply(t, op, key, code, auth_id, c, session_id, msg) ==
    [op |-> op, key |-> key, code |-> code,
     auth_id |-> auth_id, c |-> c, session_id |-> session_id, msg |-> msg]

ServerInit ==
    /\ user_info = EmptyMap
    /\ auth_id_to_user = EmptyMap
    /\ user_info_lock = NoTask
    /\ auth_id_to_user_lock = NoTask
    /\ pc = [t \in Tasks |-> "idle"]
    /\ local = [t \in Tasks |-> NoLocal]
    /\ resp = NoResp
    /\ issued = EmptyMap
    /\ verified = {}
    /\ rejected = {}
    /\ registered = EmptyMap
    /\ pending = EmptyMap
    /\ stale = {}
    /\ calls = 0

Init ==
    /\ ServerInit
    /\ test = NoTest

----------------------------------------------------------------------------
(* Handlers *)

\* register that also drops the handles issued for the user
register_drops_handles(t, user, y1, y2) ==
    /\ pc[t] = "idle"
    /\ calls < MaxCalls
    /\ user_info_lock = NoTask
    /\ calls' = calls + 1
    /\ user_info' = insert(user_info, user, new_user_info(user, y1, y2))
    /\ auth_id_to_user' =
          [h \in {x \in DOMAIN auth_id_to_user : auth_id_to_user[x] # user}
              |-> auth_id_to_user[h]]
    /\ resp' = Reply(t, "register", user, "Ok", "", <<>>, "", "")
    /\ registered' = Record(registered, user,
                            [y1 |-> from_bytes_be(y1),
                             y2 |-> from_bytes_be(y2),
                             replaced |-> Replaces(user, from_bytes_be(y1),
                                                   from_bytes_be(y2)),
                             times |-> Times(user) + 1])
    /\ pending' = Forget(pending, user)
    /\ stale' = stale \cup IssuedFor(user)
    /\ UNCHANGED <<user_info_lock, auth_id_to_user_lock, pc, local, issued,
                   verified, rejected, test>>

\* AuthImpl::register (server.rs 34-51)
register(t, user, y1, y2) ==
    /\ pc[t] = "idle"
    /\ calls < MaxCalls
    /\ user_info_lock = NoTask
    /\ calls' = calls + 1
    /\ user_info' = insert(user_info, user, new_user_info(user, y1, y2))
    /\ resp' = Reply(t, "register", user, "Ok", "", <<>>, "", "")
    /\ registered' = Record(registered, user,
                            [y1 |-> from_bytes_be(y1),
                             y2 |-> from_bytes_be(y2),
                             replaced |-> Replaces(user, from_bytes_be(y1),
                                                   from_bytes_be(y2)),
                             times |-> Times(user) + 1])
    /\ pending' = Forget(pending, user)
    /\ stale' = stale \cup IssuedFor(user)
    /\ UNCHANGED <<auth_id_to_user, user_info_lock, auth_id_to_user_lock, pc,
                   local, issued, verified, rejected, test>>

\* the else branch issuing a handle for the unknown user
create_challenge_not_found_issues(t, user, r1, r2, c) ==
    /\ user \notin DOMAIN user_info
    /\ \E auth_id \in generate_random_string(12) :
          /\ auth_id_to_user' = insert(auth_id_to_user, auth_id, user)
          /\ issued' = Record(issued, auth_id,
                              [user_name |-> user, r1 |-> from_bytes_be(r1),
                               r2 |-> from_bytes_be(r2), c |-> c])
          /\ resp' = Reply(t, "create_authentication_challenge", user, "Ok",
                           auth_id, to_bytes_be(c), "", "")
    /\ UNCHANGED <<user_info, user_info_lock, auth_id_to_user_lock, pc, local,
                   verified, rejected, registered, pending, stale,
                   test>>

\* the else branch with an entry created for the unknown user
create_challenge_not_found_creates(t, user, r1, r2, c) ==
    /\ user \notin DOMAIN user_info
    /\ user_info' = insert(user_info, user, UserInfoDefault)
    /\ \E auth_id \in generate_random_string(12) :
          /\ auth_id_to_user' = insert(auth_id_to_user, auth_id, user)
          /\ issued' = Record(issued, auth_id,
                              [user_name |-> user, r1 |-> 0, r2 |-> 0,
                               c |-> 0])
          /\ resp' = Reply(t, "create_authentication_challenge", user, "Ok",
                           auth_id, to_bytes_be(c), "", "")
    /\ UNCHANGED <<user_info_lock, auth_id_to_user_lock, pc, local, verified,
                   rejected, registered, pending, stale,
                   test>>

\* create_authentication_challenge, user unknown (server.rs 80-85)
create_challenge_not_found(t, user, r1, r2, c) ==
    /\ user \notin DOMAIN user_info
    /\ resp' = Reply(t, "create_authentication_challenge", user, "NotFound",
                     "", <<>>, "", user)
    /\ UNCHANGED <<user_info, auth_id_to_user, user_info_lock,
                   auth_id_to_user_lock, pc, local, issued, verified,
                   rejected, registered, pending, stale,
                   test>>

\* r1 and r2 written, the drawn c left out of the record
create_challenge_found_without_c(t, user, r1, r2, c) ==
    /\ user \in DOMAIN user_info
    /\ user_info' = set_challenge(user_info, user, from_bytes_be(r1),
                                  from_bytes_be(r2), user_info[user].c)
    /\ user_info_lock' = t
    /\ pc' = [pc EXCEPT ![t] = "create_authentication_challenge"]
    /\ local' = [local EXCEPT ![t] =
                    [NoLocal EXCEPT !.user_name = user,
                                    !.r1 = from_bytes_be(r1),
                                    !.r2 = from_bytes_be(r2), !.c = c]]
    /\ pending' = Forget(pending, user)
    /\ stale' = {sh \in stale : sh[1] # user}
    /\ UNCHANGED <<auth_id_to_user, auth_id_to_user_lock, resp, issued,
                   verified, rejected, registered, test>>

\* create_authentication_challenge, user known: r1, r2, c written under the
\* user_info lock, which stays held (server.rs 63-71)
create_challenge_found(t, user, r1, r2, c) ==
    /\ user \in DOMAIN user_info
    /\ user_info' = set_challenge(user_info, user, from_bytes_be(r1),
                                  from_bytes_be(r2), c)
    /\ user_info_lock' = t
    /\ pc' = [pc EXCEPT ![t] = "create_authentication_challenge"]
    /\ local' = [local EXCEPT ![t] =
                    [NoLocal EXCEPT !.user_name = user,
                                    !.r1 = from_bytes_be(r1),
                                    !.r2 = from_bytes_be(r2), !.c = c]]
    /\ pending' = Forget(pending, user)
    /\ stale' = {sh \in stale : sh[1] # user}
    /\ UNCHANGED <<auth_id_to_user, auth_id_to_user_lock, resp, issued,
                   verified, rejected, registered, test>>

\* AuthImpl::create_authentication_challenge up to the second lock
\* (server.rs 53-72, 80-85)
create_authentication_challenge(t, user, r1, r2, c) ==
    /\ pc[t] = "idle"
    /\ calls < MaxCalls
    /\ user_info_lock = NoTask
    /\ calls' = calls + 1
    /\ \/ create_challenge_found(t, user, r1, r2, c)
       \/ create_challenge_not_found(t, user, r1, r2, c)

\* create_authentication_challenge from the auth_id_to_user lock to the
\* return (server.rs 73-79); auth_id is the string drawn at server.rs 69,
\* which nothing reads before the insert
create_challenge_insert(t, auth_id) ==
    /\ pc[t] = "create_authentication_challenge"
    /\ auth_id_to_user_lock = NoTask
    /\ auth_id_to_user' = insert(auth_id_to_user, auth_id,
                                 local[t].user_name)
    /\ user_info_lock' = NoTask
    /\ pc' = [pc EXCEPT ![t] = "idle"]
    /\ local' = [local EXCEPT ![t] = NoLocal]
    /\ resp' = Reply(t, "create_authentication_challenge", local[t].user_name,
                     "Ok", auth_id, to_bytes_be(local[t].c), "", "")
    /\ issued' = Record(issued, auth_id,
                        [user_name |-> local[t].user_name, r1 |-> local[t].r1,
                         r2 |-> local[t].r2, c |-> local[t].c])
    /\ verified' = verified \ {auth_id}
    /\ rejected' = rejected \ {auth_id}
    /\ pending' = Record(pending, local[t].user_name,
                         [auth_id |-> auth_id, r1 |-> local[t].r1,
                          r2 |-> local[t].r2, c |-> local[t].c])
    /\ UNCHANGED <<user_info, auth_id_to_user_lock, registered, stale, calls,
                   test>>

\* the else branch answering with a session token
verify_not_found_grants(t, auth_id, s) ==
    /\ auth_id \notin DOMAIN auth_id_to_user
    /\ \E session_id \in generate_random_string(12) :
          resp' = Reply(t, "verify_authentication", auth_id, "Ok", "", <<>>,
                        session_id, "")
    /\ UNCHANGED <<user_info, auth_id_to_user, user_info_lock,
                   auth_id_to_user_lock, pc, local, issued, verified,
                   rejected, registered, pending, stale,
                   test>>

\* verify_authentication, handle unknown (server.rs 126-131)
verify_not_found(t, auth_id, s) ==
    /\ auth_id \notin DOMAIN auth_id_to_user
    /\ resp' = Reply(t, "verify_authentication", auth_id, "NotFound", "",
                     <<>>, "", auth_id)
    /\ UNCHANGED <<user_info, auth_id_to_user, user_info_lock,
                   auth_id_to_user_lock, pc, local, issued, verified,
                   rejected, registered, pending, stale,
                   test>>

\* verify_authentication, handle known: the auth_id_to_user lock stays held
\* (server.rs 96-98)
verify_found(t, auth_id, s) ==
    /\ auth_id \in DOMAIN auth_id_to_user
    /\ auth_id_to_user_lock' = t
    /\ pc' = [pc EXCEPT ![t] = "verify_authentication"]
    /\ local' = [local EXCEPT ![t] =
                    [NoLocal EXCEPT !.auth_id = auth_id, !.s = s,
                                    !.user_name = auth_id_to_user[auth_id]]]
    /\ UNCHANGED <<user_info, auth_id_to_user, user_info_lock, resp, issued,
                   verified, rejected, registered, pending, stale,
                   test>>

\* AuthImpl::verify_authentication up to the second lock
\* (server.rs 88-98, 126-131)
verify_authentication(t, auth_id, s) ==
    /\ pc[t] = "idle"
    /\ calls < MaxCalls
    /\ auth_id_to_user_lock = NoTask
    /\ calls' = calls + 1
    /\ \/ verify_found(t, auth_id, s)
       \/ verify_not_found(t, auth_id, s)

\* the verification with the stored challenge left out
verification_without_challenge(info, s) ==
    verify(get_constants, info.r1, info.r2, info.y1, info.y2, 0,
           from_bytes_be(s))

\* the verification of verify_authentication (server.rs 104-113)
verification(info, s) ==
    verify(get_constants, info.r1, info.r2, info.y1, info.y2, info.c,
           from_bytes_be(s))

\* the PermissionDenied message naming the user instead of the handle
verify_check_names_user(t, session_id) ==
    /\ pc[t] = "verify_authentication"
    /\ user_info_lock = NoTask
    /\ LET user_name == local[t].user_name
           auth_id == local[t].auth_id
       IN  IF verification(user_info[user_name], local[t].s)
           THEN /\ user_info' = [user_info EXCEPT
                                   ![user_name].session_id = session_id]
                /\ resp' = Reply(t, "verify_authentication", auth_id, "Ok",
                                 "", <<>>, session_id, "")
                /\ verified' = verified \cup {auth_id}
                /\ UNCHANGED rejected
           ELSE /\ resp' = Reply(t, "verify_authentication", auth_id,
                                 "PermissionDenied", "", <<>>, "", user_name)
                /\ rejected' = rejected \cup {auth_id}
                /\ UNCHANGED <<user_info, verified>>
    /\ auth_id_to_user_lock' = NoTask
    /\ pc' = [pc EXCEPT ![t] = "idle"]
    /\ local' = [local EXCEPT ![t] = NoLocal]
    /\ UNCHANGED <<auth_id_to_user, user_info_lock, issued, registered,
                   pending, stale, calls, test>>

\* the submitted s stored in the user's record before the verification
verify_check_stores_s(t, session_id) ==
    /\ pc[t] = "verify_authentication"
    /\ user_info_lock = NoTask
    /\ LET user_name == local[t].user_name
           auth_id == local[t].auth_id
           stored == [user_info EXCEPT
                        ![user_name].s = from_bytes_be(local[t].s)]
       IN  IF verification(user_info[user_name], local[t].s)
           THEN /\ user_info' = [stored EXCEPT
                                   ![user_name].session_id = session_id]
                /\ resp' = Reply(t, "verify_authentication", auth_id, "Ok",
                                 "", <<>>, session_id, "")
                /\ verified' = verified \cup {auth_id}
                /\ UNCHANGED rejected
           ELSE /\ user_info' = stored
                /\ resp' = Reply(t, "verify_authentication", auth_id,
                                 "PermissionDenied", "", <<>>, "", auth_id)
                /\ rejected' = rejected \cup {auth_id}
                /\ UNCHANGED verified
    /\ auth_id_to_user_lock' = NoTask
    /\ pc' = [pc EXCEPT ![t] = "idle"]
    /\ local' = [local EXCEPT ![t] = NoLocal]
    /\ UNCHANGED <<auth_id_to_user, user_info_lock, issued, registered,
                   pending, stale, calls, test>>

\* verify_authentication from the user_info lock to the return
\* (server.rs 99-125)
verify_check(t, session_id) ==
    /\ pc[t] = "verify_authentication"
    /\ user_info_lock = NoTask
    /\ LET user_name == local[t].user_name
           auth_id == local[t].auth_id
       IN  IF verification(user_info[user_name], local[t].s)
           THEN /\ user_info' = [user_info EXCEPT
                                   ![user_name].session_id = session_id]
                /\ resp' = Reply(t, "verify_authentication", auth_id, "Ok",
                                 "", <<>>, session_id, "")
                /\ verified' = verified \cup {auth_id}
                /\ UNCHANGED rejected
           ELSE /\ resp' = Reply(t, "verify_authentication", auth_id,
                                 "PermissionDenied", "", <<>>, "", auth_id)
                /\ rejected' = rejected \cup {auth_id}
                /\ UNCHANGED <<user_info, verified>>
    /\ auth_id_to_user_lock' = NoTask
    /\ pc' = [pc EXCEPT ![t] = "idle"]
    /\ local' = [local EXCEPT ![t] = NoLocal]
    /\ UNCHANGED <<auth_id_to_user, user_info_lock, issued, registered,
                   pending, stale, calls, test>>

Next ==
    \/ \E t \in Tasks, user \in Users, y \in CredentialBytes :
          register(t, user, y[1], y[2])
    \/ \E t \in Tasks, user \in Users, r \in CommitmentBytes,
          c \in generate_random_number_below(get_constants.q) :
          create_authentication_challenge(t, user, r[1], r[2], c)
    \/ \E t \in Tasks, auth_id \in generate_random_string(12) :
          create_challenge_insert(t, auth_id)
    \/ \E t \in Tasks, auth_id \in RandomStrings, s \in ResponseBytes :
          verify_authentication(t, auth_id, s)
    \/ \E t \in Tasks, session_id \in generate_random_string(12) :
          verify_check(t, session_id)

Spec == Init /\ [][Next]_vars

----------------------------------------------------------------------------
(* The server with both users enrolled *)

\* the state after one register call per user (server.rs 34-51), the
\* credentials drawn from CredentialBytes; calls counts the requests after
\* these
InitEnrolled ==
    /\ \E y \in [Users -> CredentialBytes] :
          /\ user_info =
                [u \in Users |-> new_user_info(u, y[u][1], y[u][2])]
          /\ registered =
                [u \in Users |-> [y1 |-> from_bytes_be(y[u][1]),
                                  y2 |-> from_bytes_be(y[u][2]),
                                  replaced |-> FALSE, times |-> 1]]
    /\ auth_id_to_user = EmptyMap
    /\ user_info_lock = NoTask
    /\ auth_id_to_user_lock = NoTask
    /\ pc = [t \in Tasks |-> "idle"]
    /\ local = [t \in Tasks |-> NoLocal]
    /\ resp = NoResp
    /\ issued = EmptyMap
    /\ verified = {}
    /\ rejected = {}
    /\ pending = EmptyMap
    /\ stale = {}
    /\ calls = 0
    /\ test = NoTest

SpecEnrolled == InitEnrolled /\ [][Next]_vars

----------------------------------------------------------------------------
(* The engine specification *)

InitZKP ==
    /\ ServerInit
    /\ test \in {[NoTest EXCEPT !.phase = "inputs", !.zkp = zkp, !.x = x,
                                !.k = k, !.c = c] :
                    zkp \in Groups, x \in 0..MaxIn, k \in 0..MaxIn,
                    c \in 0..MaxIn}

NextZKP ==
    \/ ComputeCommitments
    \/ ComputeResponse
    \/ CheckProof
    \/ \E x_fake \in 0..MaxIn : ComputeFakeResponse(x_fake)
    \/ CheckFakeProof

SpecZKP == InitZKP /\ [][NextZKP]_vars

\* the run of tests::test_unified_formula, with drawn inputs and the
\* server's group beside the two toy groups
InitUnified ==
    /\ ServerInit
    /\ test \in {[NoTest EXCEPT !.phase = "inputs", !.zkp = zkp, !.x = x,
                                !.k = k, !.c = c] :
                    zkp \in Groups \cup {get_constants}, x \in 0..MaxIn,
                    k \in 0..MaxIn, c \in 0..MaxIn}

NextUnified == SolveOriginal \/ SolveUnified

SpecUnified == InitUnified /\ [][NextUnified]_vars

\* one exponentiation, as in tests::test_trait_import_example (base 4,
\* exponent 6, modulus 23), with drawn operands
InitExponentiation ==
    /\ ServerInit
    /\ test \in {[NoTest EXCEPT !.phase = "operands", !.base = base,
                                !.exponent = exponent,
                                !.modulus = modulus] :
                    base \in 0..MaxBase, exponent \in 0..MaxExponent,
                    modulus \in 2..MaxModulus}

NextExponentiation == Exponentiate

SpecExponentiation == InitExponentiation /\ [][NextExponentiation]_vars

\* the runs of tests::test_trivial_invalid_numbers and
\* tests::test_zero_values_with_nonzero_challenge: verify on public values
\* set by hand, here drawn from 0..MaxGiven, with any challenge
InitGiven ==
    /\ ServerInit
    /\ test \in {[NoTest EXCEPT !.phase = "given", !.zkp = zkp, !.r1 = r1,
                                !.r2 = r2, !.y1 = y1, !.y2 = y2, !.c = c,
                                !.s = s] :
                    zkp \in Groups \cup {get_constants},
                    r1 \in 0..MaxGiven, r2 \in 0..MaxGiven,
                    y1 \in 0..MaxGiven, y2 \in 0..MaxGiven,
                    s \in 0..MaxGiven, c \in 0..MaxIn}

NextGiven == VerifyGiven

SpecGiven == InitGiven /\ [][NextGiven]_vars

\* the engine run of tests::test_toy_example2, inputs above q: drawn
\* inputs over the toy groups and the server's group (q = 3, the inputs
\* reaching 4 * q)
InitUnreduced ==
    /\ ServerInit
    /\ test \in {[NoTest EXCEPT !.phase = "inputs", !.zkp = zkp, !.x = x,
                                !.k = k, !.c = c] :
                    zkp \in Groups \cup {get_constants}, x \in 0..MaxIn,
                    k \in 0..MaxIn, c \in 0..MaxIn}

NextUnreduced == ComputeCommitments \/ ComputeResponse \/ CheckProof

SpecUnreduced == InitUnreduced /\ [][NextUnreduced]_vars

\* the engine run of tests::test_verify_sample_data: an honest transcript
\* over its group (lib.rs 463-468), then verify with one value replaced
InitWrong ==
    /\ ServerInit
    /\ test \in {[NoTest EXCEPT !.phase = "inputs", !.zkp = ToyGroup,
                                !.x = x, !.k = k, !.c = c] :
                    x \in 0..MaxIn, k \in 0..MaxIn, c \in 0..MaxIn}

NextWrong ==
    \/ ComputeCommitments
    \/ ComputeResponse
    \/ CheckProof
    \/ \E which \in Replaceable :
          \E wrong \in WrongValues(test.zkp, which) :
             CheckWrongValue(which, wrong)

SpecWrong == InitWrong /\ [][NextWrong]_vars

----------------------------------------------------------------------------
(* Steps, as seen from outside a handler *)

\* task t returns from verify_authentication in this step
VerifyReturns(t) ==
    pc[t] = "verify_authentication" /\ pc'[t] = "idle"

\* task t enters the second half of create_authentication_challenge
ChallengeProceeds(t) ==
    pc[t] = "idle" /\ pc'[t] = "create_authentication_challenge"

\* task t returns from create_authentication_challenge with both locks taken
ChallengeReturns(t) ==
    pc[t] = "create_authentication_challenge" /\ pc'[t] = "idle"

\* a create_authentication_challenge call returns without a second lock
ChallengeReturnsAtOnce ==
    /\ calls' # calls
    /\ pc' = pc
    /\ resp'.op = "create_authentication_challenge"

\* a register call runs
RegisterReturns ==
    /\ calls' # calls
    /\ pc' = pc
    /\ resp'.op = "register"

\* task t enters the second half of verify_authentication
VerifyProceeds(t) ==
    pc[t] = "idle" /\ pc'[t] = "verify_authentication"

\* a verify_authentication call returns without a second lock
VerifyReturnsAtOnce ==
    /\ calls' # calls
    /\ pc' = pc
    /\ resp'.op = "verify_authentication"

\* the residue of the signed integer a modulo q, in [0, q)
signed_mod(a, q) == IF a >= 0 THEN a % q ELSE (q - ((0 - a) % q)) % q

\* b to the power e over the integers, with the empty product 1
RECURSIVE power(_, _)
power(b, e) == IF e = 0 THEN 1 ELSE b * power(b, e - 1)

\* r1 = (g^s * y1^c) mod p and r2 = (h^s * y2^c) mod p
ChaumPedersen(zkp, r1, r2, y1, y2, c, s) ==
    /\ r1 = (power(zkp.g, s) * power(y1, c)) % zkp.p
    /\ r2 = (power(zkp.h, s) * power(y2, c)) % zkp.p

\* x, k, c of the engine run are reduced modulo q
InputsBelowQ ==
    /\ test.x < test.zkp.q
    /\ test.k < test.zkp.q
    /\ test.c < test.zkp.q

----------------------------------------------------------------------------
(* Claims *)

\* C1: once a verify_authentication on a handle has returned a session
\* token, no later verify_authentication on that handle returns a token.
C1_AtMostOneToken ==
    [][\A t \in Tasks :
          (VerifyReturns(t) /\ resp'.code = "Ok")
              => local[t].auth_id \notin verified]_vars

\* C2: no state has one call holding the user_info lock and waiting for the
\* auth_id_to_user lock while another call holds the auth_id_to_user lock
\* and waits for the user_info lock.
C2_NoLockCycle ==
    ~ \E t1, t2 \in Tasks :
        /\ pc[t1] = "create_authentication_challenge"
        /\ user_info_lock = t1
        /\ pc[t2] = "verify_authentication"
        /\ auth_id_to_user_lock = t2

\* C3: completeness: with x, k, c in [0, q), the response s = solve(k, c, x)
\* makes verify accept the commitments and credentials of the same run.
C3_Completeness ==
    (test.phase \in {"verified", "fake_solved", "fake_verified"}
        /\ InputsBelowQ)
        => test.result = TRUE

\* C3 witness: an accepted run through the else branch of solve, k < c * x,
\* at its edge: c * x - k is a multiple of q and the response is q itself
C3_Witness ==
    /\ test.phase = "verified"
    /\ InputsBelowQ
    /\ test.k < test.c * test.x
    /\ test.s = test.zkp.q
    /\ test.result = TRUE

\* C4: verify_authentication on a handle evaluates the predicate with the
\* r1, r2 supplied to and the c drawn by the call that returned the handle,
\* whatever create_authentication_challenge calls happened in between (for
\* a user registered once, so that no registration lies in between).
C4_IndependentSessions ==
    [][\A t \in Tasks :
          (VerifyReturns(t) /\ Times(local[t].user_name) = 1)
          =>  LET info == user_info[local[t].user_name]
                  session == issued[local[t].auth_id]
              IN  /\ info.r1 = session.r1
                  /\ info.r2 = session.r2
                  /\ info.c = session.c]_vars

\* C5: after verify_authentication on a handle has failed with
\* PermissionDenied, no later verify_authentication on that handle returns
\* a token.
C5_DeniedIsTerminal ==
    [][\A t \in Tasks :
          (VerifyReturns(t) /\ resp'.code = "Ok")
              => local[t].auth_id \notin rejected]_vars

\* C6: soundness: with x, k, c, x_fake in [0, q) and x_fake # x, the
\* response computed from x_fake is accepted only when c = 0; for every
\* c in [1, q) verify rejects it.
C6_Soundness ==
    (test.phase = "fake_verified" /\ InputsBelowQ
        /\ test.x_fake < test.zkp.q /\ test.x_fake # test.x)
        => (test.result_fake => test.c = 0)

\* C6 witness: a wrong-secret response through the else branch, rejected
\* while the honest response of the same run was accepted
C6_Witness ==
    /\ test.phase = "fake_verified"
    /\ InputsBelowQ
    /\ test.x_fake < test.zkp.q
    /\ test.x_fake # test.x
    /\ test.c >= 1
    /\ test.k < test.c * test.x_fake
    /\ test.result = TRUE
    /\ test.result_fake = FALSE

\* C7: solve(k, c, x) is the signed residue (k - c*x) mod q and lies in
\* [0, q).
C7_SolveIsResidue ==
    (test.phase \in {"solved", "verified", "fake_solved", "fake_verified"})
        => /\ test.s = signed_mod(test.k - test.c * test.x, test.zkp.q)
           /\ test.s >= 0
           /\ test.s < test.zkp.q

C9_RegistryOverwrite ==
    [][/\ RegisterReturns =>
            /\ resp'.code = "Ok"
            /\ resp'.key \in DOMAIN user_info'
            /\ user_info'[resp'.key].y1 = registered'[resp'.key].y1
            /\ user_info'[resp'.key].y2 = registered'[resp'.key].y2
       /\ \A t \in Tasks :
            /\ ChallengeProceeds(t) =>
                  LET user == local'[t].user_name
                  IN  /\ user_info'[user].y1 = registered[user].y1
                      /\ user_info'[user].y2 = registered[user].y2
            /\ VerifyReturns(t) =>
                  LET info == user_info[local[t].user_name]
                      last == registered[local[t].user_name]
                  IN  (resp'.code = "Ok")
                         <=> verify(get_constants, info.r1, info.r2, last.y1,
                                    last.y2, info.c,
                                    from_bytes_be(local[t].s))]_vars

\* C9 witness: a user registered twice with different credentials has been
\* challenged and verified
C9_Witness ==
    \E user \in DOMAIN registered :
        /\ registered[user].replaced
        /\ user_info[user].r1 # 0
        /\ user_info[user].session_id # ""
        /\ resp.op = "verify_authentication"
        /\ resp.code = "Ok"

\* C10: create_authentication_challenge fails with NotFound exactly when the
\* user has no credential at the call, and then creates no handle and
\* returns no challenge.
C10_ChallengeNotFound ==
    [][/\ ChallengeReturnsAtOnce =>
            /\ resp'.key \notin DOMAIN user_info
            /\ resp'.code = "NotFound"
            /\ resp'.auth_id = ""
            /\ resp'.c = <<>>
            /\ auth_id_to_user' = auth_id_to_user
            /\ user_info' = user_info
       /\ \A t \in Tasks :
            /\ ChallengeProceeds(t) => local'[t].user_name \in DOMAIN user_info
            /\ ChallengeReturns(t) =>
                  /\ resp'.code = "Ok"
                  /\ resp'.auth_id \in DOMAIN auth_id_to_user']_vars

\* C10 witness: a challenge for an unregistered user was refused while
\* another user is registered
C10_Witness ==
    /\ resp.op = "create_authentication_challenge"
    /\ resp.code = "NotFound"
    /\ resp.key \notin DOMAIN user_info
    /\ user_info # EmptyMap
    /\ auth_id_to_user = EmptyMap

\* C11: a verify_authentication on a handle that no successful
\* create_authentication_challenge has returned answers NotFound with no
\* token, and a token is returned only for a handle that an earlier
\* successful create_authentication_challenge returned.
C11_TokenOnlyAfterChallenge ==
    [][/\ \A t \in Tasks :
             VerifyProceeds(t) => local'[t].auth_id \in DOMAIN issued
       /\ VerifyReturnsAtOnce =>
             /\ resp'.key \notin DOMAIN issued
             /\ resp'.code = "NotFound"
             /\ resp'.session_id = ""
       /\ \A t \in Tasks :
             (VerifyReturns(t) /\ resp'.code = "Ok") =>
                 local[t].auth_id \in DOMAIN issued]_vars

\* a handle never issued was answered NotFound after another handle was
\* issued and verified
C11_Witness ==
    /\ resp.op = "verify_authentication"
    /\ resp.code = "NotFound"
    /\ resp.key \notin DOMAIN issued
    /\ verified # {}

\* C12: a verify_authentication on a known handle returns a session token
\* exactly when r1 = (g^s * y1^c) mod p and r2 = (h^s * y2^c) mod p hold for
\* the r1, r2, c stored in the owner's record and the owner's current y1, y2;
\* otherwise it answers PermissionDenied and returns no token.
C12_TokenIffPredicate ==
    [][\A t \in Tasks :
          VerifyReturns(t) =>
              LET info == user_info[auth_id_to_user[local[t].auth_id]]
                  holds == ChaumPedersen(get_constants, info.r1, info.r2,
                                         info.y1, info.y2, info.c,
                                         from_bytes_be(local[t].s))
              IN  /\ holds => /\ resp'.code = "Ok"
                              /\ resp'.session_id # ""
                  /\ ~holds => /\ resp'.code = "PermissionDenied"
                               /\ resp'.session_id = ""
                               /\ user_info' = user_info]_vars

\* one answer to a known handle was granted a token and another was denied
C12_Witness ==
    /\ resp.op = "verify_authentication"
    /\ resp.code = "PermissionDenied"
    /\ resp.key \in DOMAIN auth_id_to_user
    /\ verified # {}

\* the responses solve(k, c, x) of a client whose secret x and nonce k
\* produced the credential y1, y2 and the commitment r1, r2
HonestResponses(y1, y2, r1, r2, c) ==
    {to_bytes_be(solve(get_constants, k, c, x)) :
        <<x, k>> \in
            {xk \in Passwords \X Commits :
                /\ y1 = exponentiate(get_constants.g, xk[1], get_constants.p)
                /\ y2 = exponentiate(get_constants.h, xk[1], get_constants.p)
                /\ r1 = exponentiate(get_constants.g, xk[2], get_constants.p)
                /\ r2 = exponentiate(get_constants.h, xk[2], get_constants.p)}}

\* the answer of task t is the honest response to the pending challenge of
\* user u, returned with the handle the answer names
HonestAnswer(t, u) ==
    /\ u \in DOMAIN pending
    /\ pending[u].auth_id = local[t].auth_id
    /\ local[t].s \in HonestResponses(registered[u].y1, registered[u].y2,
                                      pending[u].r1, pending[u].r2,
                                      pending[u].c)

\* C13: when user u is registered with (g^x, h^x), a challenge call for u
\* with (g^k, h^k) has returned (handle, c) and no register or challenge call
\* for u has run since, verify_authentication(handle, solve(k, c, x)) returns
\* a session token, whatever the calls for other users in between.
C13_HonestRun ==
    [][\A t \in Tasks, u \in Users :
          (VerifyReturns(t) /\ HonestAnswer(t, u)) =>
              /\ resp'.code = "Ok"
              /\ resp'.session_id # ""]_vars

\* the engine run is an honest transcript with x in [1, q), k in [0, q) and
\* c in [1, q), checked again with one value replaced by a different one
WrongValueChecked ==
    /\ test.phase = "wrong_verified"
    /\ test.x >= 1 /\ test.x < test.zkp.q
    /\ test.k < test.zkp.q
    /\ test.c >= 1 /\ test.c < test.zkp.q
    /\ test.value_wrong # test[test.wrong]

\* C14 as stated: replacing exactly one of r1, r2, y1, y2 by any different
\* value in [0, p), or c by any different value in [0, q), makes verify
\* return false.
C14_TamperRejected ==
    WrongValueChecked => ~test.result_wrong

\* C14 as amended: the same, except that y1 or y2 replaced by its negative
\* p - y under an even challenge c may pass.
C14_TamperRejectedButNegative ==
    (/\ WrongValueChecked
     /\ ~(/\ test.wrong \in {"y1", "y2"}
          /\ test.value_wrong = test.zkp.p - test[test.wrong]
          /\ test.c % 2 = 0))
        => ~test.result_wrong

\* a replaced y1 other than its negative was rejected under an even c
C14_Witness ==
    /\ WrongValueChecked
    /\ test.wrong = "y1"
    /\ test.value_wrong # test.zkp.p - test.y1
    /\ test.c % 2 = 0
    /\ test.result
    /\ ~test.result_wrong

\* C15: solve and solve_unified return the same value for every k, c, x and
\* q, on both branches and at the boundary k = c * x.
C15_UnifiedAgrees ==
    test.phase = "unified_solved" => test.s = test.s_unified

\* both formulas were evaluated on the else branch where the remainder is
\* zero, and both returned q
C15_Witness ==
    /\ test.phase = "unified_solved"
    /\ test.k < test.c * test.x
    /\ test.s = test.zkp.q
    /\ test.s_unified = test.zkp.q

\* verify has been called with r1 = r2 = y1 = y2 = s = 0
AllZeroVerified ==
    /\ test.phase = "given_verified"
    /\ test.r1 = 0 /\ test.r2 = 0
    /\ test.y1 = 0 /\ test.y2 = 0
    /\ test.s = 0

\* C16: with r1 = r2 = y1 = y2 = s = 0, verify returns true for every
\* challenge c > 0 and false for c = 0.
C16_ZeroValues ==
    AllZeroVerified => (test.result <=> test.c > 0)

\* the all-zero call with c = 0 returned false in the server's group
C16_Witness ==
    /\ AllZeroVerified
    /\ test.zkp = get_constants
    /\ test.c = 0
    /\ ~test.result

\* the engine run is the one of tests::test_toy_example: p = 23, q = 11,
\* g = 4, h = 9, x = 6, k = 7, c = 4
ToyExample ==
    /\ test.zkp = [p |-> 23, q |-> 11, g |-> 4, h |-> 9]
    /\ test.x = 6
    /\ test.k = 7
    /\ test.c = 4

\* C17: in the toy scenario x = 6, k = 7, c = 4 give y1 = 2, y2 = 3,
\* r1 = 8, r2 = 4 and s = 5, verify returns true, and the response
\* recomputed with x_fake = 7 makes verify return false.
C17_ToyExample ==
    ToyExample =>
        /\ test.phase \notin {"none", "inputs"} =>
              /\ test.y1 = 2 /\ test.y2 = 3
              /\ test.r1 = 8 /\ test.r2 = 4
        /\ test.phase \notin {"none", "inputs", "committed"} => test.s = 5
        /\ test.phase \notin {"none", "inputs", "committed", "solved"} =>
              test.result
        /\ (test.phase = "fake_verified" /\ test.x_fake = 7) =>
              ~test.result_fake

\* the toy scenario has run to the end with x_fake = 7
C17_Witness ==
    /\ ToyExample
    /\ test.phase = "fake_verified"
    /\ test.x_fake = 7
    /\ test.s_fake # test.s
    /\ test.result
    /\ ~test.result_fake

\* C18: a create_authentication_challenge that answers NotFound and a
\* verify_authentication that answers NotFound or PermissionDenied change
\* neither the user table nor the handle table, in any of their steps.
C18_FailureLeavesTables ==
    [][(\/ ChallengeReturnsAtOnce /\ resp'.code = "NotFound"
        \/ VerifyReturnsAtOnce /\ resp'.code = "NotFound"
        \/ \E t \in Tasks : VerifyProceeds(t)
        \/ \E t \in Tasks :
              VerifyReturns(t) /\ resp'.code = "PermissionDenied")
           => /\ user_info' = user_info
              /\ auth_id_to_user' = auth_id_to_user]_vars

\* a challenge for an unknown user failed after an answer was denied, with
\* a challenge stored in the user table
C18_Witness ==
    /\ resp.op = "create_authentication_challenge"
    /\ resp.code = "NotFound"
    /\ rejected # {}
    /\ auth_id_to_user # EmptyMap

\* C19: the c returned by a successful create_authentication_challenge
\* lies in [0, q) and is the c stored for the session, and a later
\* verify_authentication on the returned handle uses that same c (for a
\* user registered once, so that no registration lies in between).
C19_ChallengeKept ==
    [][/\ \A t \in Tasks :
             ChallengeReturns(t) =>
                 LET c == from_bytes_be(resp'.c)
                 IN  /\ c \in 0..(get_constants.q - 1)
                     /\ user_info'[resp'.key].c = c
                     /\ issued'[resp'.auth_id].c = c
       /\ \A t \in Tasks :
             (VerifyReturns(t) /\ Times(local[t].user_name) = 1) =>
                 user_info[local[t].user_name].c
                     = issued[local[t].auth_id].c]_vars

\* C20: exponentiate(base, exponent, modulus) is base to the power exponent
\* reduced modulo modulus, for every base, exponent >= 0 and modulus >= 2,
\* and exponentiate(0, 0, modulus) is 1.
C20_Exponentiate ==
    test.phase = "exponentiated" =>
        /\ test.output = power(test.base, test.exponent) % test.modulus
        /\ (test.base = 0 /\ test.exponent = 0) => test.output = 1

\* zero to the power zero has been computed modulo 23, with output 1
C20_Witness ==
    /\ test.phase = "exponentiated"
    /\ test.base = 0
    /\ test.exponent = 0
    /\ test.modulus = 23
    /\ test.output = 1

\* C21: every response is Ok or one of the typed errors of its operation,
\* NotFound for create_authentication_challenge, NotFound or
\* PermissionDenied for verify_authentication, and the message of every
\* error names the identifier the request asked for.
C21_FailureNamesIdentifier ==
    /\ resp.op = "register" => resp.code = "Ok"
    /\ resp.op = "create_authentication_challenge" =>
          resp.code \in {"Ok", "NotFound"}
    /\ resp.op = "verify_authentication" =>
          resp.code \in {"Ok", "NotFound", "PermissionDenied"}
    /\ resp.code \in {"NotFound", "PermissionDenied"} =>
          /\ resp.msg = resp.key
          /\ resp.op = "create_authentication_challenge" =>
                resp.key \in Users
          /\ resp.op = "verify_authentication" =>
                resp.key \in RandomStrings

\* an answer to a handle issued for a user was denied, the message naming
\* the handle
C21_Witness ==
    /\ resp.op = "verify_authentication"
    /\ resp.code = "PermissionDenied"
    /\ resp.msg = resp.key
    /\ resp.key \in DOMAIN auth_id_to_user
    /\ resp.msg # auth_id_to_user[resp.key]

\* the r1, r2, c of a record
Triple(info) == <<info.r1, info.r2, info.c>>

\* C22: the r1, r2, c stored for a user are those of one single
\* create_authentication_challenge call, the latest for the user (or the
\* zeros of register when there is none), in every state, so in every state
\* a verify_authentication reads them in.
C22_TripleOfOneCall ==
    \A u \in DOMAIN user_info :
        \/ \E t \in Tasks :
              /\ pc[t] = "create_authentication_challenge"
              /\ local[t].user_name = u
              /\ Triple(user_info[u]) = Triple(local[t])
        \/ /\ u \in DOMAIN pending
           /\ Triple(user_info[u]) = Triple(pending[u])
        \/ /\ u \notin DOMAIN pending
           /\ Triple(user_info[u]) = <<0, 0, 0>>

\* a second challenge call for a user has written its r1, r2, c over those
\* of an earlier call with another c, while an answer waits for the
\* user_info lock
C22_Witness ==
    \E t \in Tasks, h \in DOMAIN issued :
        /\ pc[t] = "create_authentication_challenge"
        /\ issued[h].user_name = local[t].user_name
        /\ issued[h].c # local[t].c
        /\ Triple(user_info[local[t].user_name]) = Triple(local[t])
        /\ \E t2 \in Tasks : pc[t2] = "verify_authentication"

\* C23: a step of create_authentication_challenge or verify_authentication
\* leaves y1, y2 of every user as they are, and register for a user leaves
\* the handle table and the record of every other user as they are.
C23_CredentialFrame ==
    [][/\ ~RegisterReturns =>
             \A u \in DOMAIN user_info :
                 /\ u \in DOMAIN user_info'
                 /\ user_info'[u].y1 = user_info[u].y1
                 /\ user_info'[u].y2 = user_info[u].y2
       /\ RegisterReturns =>
             /\ auth_id_to_user' = auth_id_to_user
             /\ DOMAIN user_info' = (DOMAIN user_info) \cup {resp'.key}
             /\ \A v \in (DOMAIN user_info) \ {resp'.key} :
                    user_info'[v] = user_info[v]]_vars

\* a user was registered while another user had a challenge pending and a
\* handle in the table
C23_Witness ==
    /\ resp.op = "register"
    /\ \E v \in DOMAIN pending :
          /\ v # resp.key
          /\ pending[v].auth_id \in DOMAIN auth_id_to_user
          /\ user_info[v].y1 = registered[v].y1
          /\ user_info[v].c = pending[v].c

\* C24: a successful create_authentication_challenge returns a handle that
\* is not yet a key of the handle table, so every handle already in the
\* table keeps referring to the user it was issued for.
C24_HandlesUnique ==
    [][\A t \in Tasks :
          ChallengeReturns(t) =>
              /\ resp'.auth_id \notin DOMAIN auth_id_to_user
              /\ \A h \in DOMAIN auth_id_to_user :
                    /\ h \in DOMAIN auth_id_to_user'
                    /\ auth_id_to_user'[h] = auth_id_to_user[h]]_vars

\* C25: for every x, k, c >= 0, reduced modulo q or not, the response
\* s = solve(k, c, x) makes verify accept g^k, h^k, g^x, h^x and c.
C25_CompletenessUnreduced ==
    test.phase = "verified" => test.result

\* a run with x, k, c all at least 2 * q was accepted, its response taken
\* on the else branch of solve
C25_Witness ==
    /\ test.phase = "verified"
    /\ test.x >= 2 * test.zkp.q
    /\ test.k >= 2 * test.zkp.q
    /\ test.c >= 2 * test.zkp.q
    /\ test.k < test.c * test.x
    /\ test.result

\* C26: every user name that is a value of the handle table is a key of the
\* user table, and so is the user name a verify_authentication has looked
\* up and is about to unwrap.
C26_OwnerIsRegistered ==
    /\ \A h \in DOMAIN auth_id_to_user :
          auth_id_to_user[h] \in DOMAIN user_info
    /\ \A t \in Tasks :
          pc[t] = "verify_authentication" =>
              local[t].user_name \in DOMAIN user_info

\* an answer has looked up the owner of a handle issued before the owner
\* was registered again
C26_Witness ==
    \E t \in Tasks :
        /\ pc[t] = "verify_authentication"
        /\ Times(local[t].user_name) >= 2
        /\ local[t].user_name \notin DOMAIN pending
        /\ user_info[local[t].user_name].r1 = 0

\* C27: register for a user resets the user's r1, r2, c and session id, and
\* from then on every verify_authentication on a handle issued for the user
\* before that register answers PermissionDenied, whatever s, until a new
\* create_authentication_challenge for the user.
C27_RegisterInvalidates ==
    [][/\ RegisterReturns =>
             /\ Triple(user_info'[resp'.key]) = <<0, 0, 0>>
             /\ user_info'[resp'.key].session_id = ""
       /\ \A t \in Tasks :
             (VerifyReturns(t)
                 /\ \E u \in Users : <<u, local[t].auth_id>> \in stale)
             => resp'.code = "PermissionDenied"]_vars

====
